---- MODULE Spec2Model ----
(***************************************************************************)
(* The HTTP backend of the blogging application (the express server with   *)
(* its sign-up, sign-in, post, comment, like and email-share routes) as a  *)
(* state machine.  The database tables are the shared state; every request *)
(* in flight is one slot of `reqs` that moves through the promise chain of *)
(* its route handler, one step per collaborator call that completes.       *)
(***************************************************************************)
EXTENDS Integers, Sequences, FiniteSets, Bags, TLC

\* ------------------------------------------------------------------ bounds
\* Requests that can be in flight (or waiting to be read) at the same time.
MaxReq == 2
\* Rows the posts table can hold.
MaxPosts == 1
\* Rows the comments table can hold.
MaxComments == 1
\* Rows the likePosts table can hold.
MaxLikes == 2

Reqs == 1..MaxReq

\* ------------------------------------------------------------ input values
\* A JSON field that is absent destructures to undefined.
Undefined == "undefined"
Empty == ""
\* !x of the handlers' validation, on the values a JSON string field takes
Falsy(x) == x = Undefined \/ x = Empty

Salts == {"s1"}
TOKEN_SECRET == "server-secret"
OtherSecret == "attacker-secret"

\* request bodies of POST /api/auth/sign-up: the complete ones, and bodies
\* with a field empty or absent
SignUpBodies ==
  { [username |-> "alice", password |-> "pw1", email |-> "a@x.com"],
    [username |-> "bob", password |-> "pw2", email |-> "a@x.com"],
    [username |-> Empty, password |-> "pw1", email |-> "a@x.com"],
    [username |-> "alice", password |-> Undefined, email |-> "a@x.com"],
    [username |-> "alice", password |-> "pw1", email |-> Empty],
    [username |-> Undefined, password |-> Undefined, email |-> Undefined] }

\* the complete ones
SignUpComplete ==
  {b \in SignUpBodies : ~Falsy(b.username) /\ ~Falsy(b.password) /\ ~Falsy(b.email)}

\* request bodies of POST /api/auth/sign-in
SignInBodies ==
  { [username |-> "alice", password |-> "pw1"],
    [username |-> "alice", password |-> "pw2"],
    [username |-> "bob", password |-> "pw2"],
    [username |-> Undefined, password |-> "pw1"],
    [username |-> "alice", password |-> Empty] }

\* ------------------------------------------------------------------ errors
NoErr == [type |-> "none"]
ClientError(status, message) ==
  [type |-> "ClientError", status |-> status, message |-> message]
\* what pg rejects with on a violated unique constraint (SQLSTATE 23505)
UniqueViolation == [type |-> "DatabaseError", code |-> "23505"]
\* any other failure of a collaborator call
Failure(who) == [type |-> "Error", code |-> who]

\* ----------------------------------------------------------- collaborators
\* argon2.hash: a salted one-way digest of the password
Argon2Hash(salt, password) ==
  [alg |-> "argon2", salt |-> salt, digest |-> <<salt, password>>]

\* argon2.verify: recompute the digest under the stored salt and compare
Argon2Verify(hashedPassword, password) ==
  hashedPassword.digest = <<hashedPassword.salt, password>>

NoToken == [form |-> "absent"]
Garbage == [form |-> "garbage"]
\* jwt.sign(payload, secret)
JwtSign(payload, secret) ==
  [form |-> "jwt", payload |-> payload, sig |-> <<payload, secret>>]
\* jwt.verify(token, secret) does not throw
JwtVerify(token, secret) ==
  /\ token.form = "jwt"
  /\ token.sig = <<token.payload, secret>>

\* The authorization middleware: the token of the x-access-token header
\* must verify against the server's secret; its payload becomes req.user.
AuthorizationMiddleware(token) ==
  IF JwtVerify(token, TOKEN_SECRET)
  THEN [ok |-> TRUE, user |-> token.payload]
  ELSE [ok |-> FALSE, err |-> [type |-> "ClientError", status |-> 401,
                               message |-> "authentication required"]]

\* pg hands a count, a bigint, to the handler as its decimal text
Digits == <<"0", "1", "2", "3", "4", "5", "6", "7", "8", "9">>
RECURSIVE Int8Text(_)
Int8Text(n) ==
  IF n < 10 THEN <<Digits[n + 1]>>
  ELSE Int8Text(n \div 10) \o <<Digits[(n % 10) + 1]>>

\* ---------------------------------------------------------------- responses
NoRes == [status |-> 0]
\* res.status(n).json(body)
Json(status, body) == [status |-> status, body |-> body]

\* The error middleware at the end of the chain: a ClientError is reported
\* with its own status and message, a uniqueness violation as a conflict,
\* anything else as a generic server fault with no detail of the error.
ErrorMiddleware(err) ==
  IF err.type = "ClientError" THEN Json(err.status, [error |-> err.message])
  ELSE IF err = UniqueViolation THEN Json(409, [error |-> "conflict"])
  ELSE Json(500, [error |-> "an unexpected error occurred"])

\* the error taxonomy, read off a response
ErrorKind(res) ==
  CASE res.status = 400 -> "ValidationError"
    [] res.status = 401 -> "AuthenticationError"
    [] res.status = 409 -> "ConflictError"
    [] res.status = 500 -> "DependencyError"
    [] OTHER -> "none"

\* -------------------------------------------------------------------- state
VARIABLES
  users,      \* table "users": rows userId, username, hashedPassword, email
  posts,      \* table "posts"
  comments,   \* table "comments"
  likePosts,  \* table "likePosts": rows postId, userId, each with the
              \* number of copies of it the table holds
  reqs,       \* the requests: route, inputs, position in the handler, outcome
  registered  \* history: the password each account was registered with

vars == <<users, posts, comments, likePosts, reqs, registered>>
db == <<users, posts, comments, likePosts>>

NoTmp == [none |-> TRUE]
Idle ==
  [route |-> "none", pc |-> "idle", body |-> [none |-> TRUE], token |-> NoToken,
   user |-> [none |-> TRUE], tmp |-> NoTmp, steps |-> <<>>, existed |-> FALSE,
   err |-> NoErr, res |-> NoRes]

\* a request as express hands it to the first handler of its route
Request(route, body, token) ==
  [Idle EXCEPT !.route = route, !.pc = "recv", !.body = body, !.token = token]

\* a slot takes a new request once the previous one has been answered
Free(r) == reqs[r].pc \in {"idle", "done"}

\* the requests of a route whose insert has been issued and has not settled
Inserting(route) == {q \in Reqs : reqs[q].route = route /\ reqs[q].pc = "query"}

Log(req, events) == [req EXCEPT !.steps = @ \o events]

\* next(err), or a throw that express or the promise chain catches: the
\* request ends in the error middleware
Fail(req, err) ==
  [req EXCEPT !.pc = "done", !.tmp = NoTmp, !.err = err,
              !.res = ErrorMiddleware(err)]

\* res.status(status).json(body) ends the request
Respond(req, status, body) ==
  [req EXCEPT !.pc = "done", !.tmp = NoTmp, !.res = Json(status, body)]

Init ==
  /\ users = {}
  /\ posts = {}
  /\ comments = {}
  /\ likePosts = EmptyBag
  /\ reqs = [r \in Reqs |-> Idle]
  /\ registered = {}

\* --------------------------------------------------------- table "users"
UserByName(username) == {u \in users : u.username = username}

\* insert into "users" ... : the username is unique and the userId is a
\* fresh serial number; the outcome is the new row or the violation
InsertUser(username, hashedPassword, email) ==
  IF UserByName(username) # {} THEN [ok |-> FALSE, err |-> UniqueViolation]
  ELSE [ok |-> TRUE,
        row |-> [userId |-> Cardinality(users) + 1, username |-> username,
                 hashedPassword |-> hashedPassword, email |-> email]]

\* ------------------------------------------------ POST /api/auth/sign-up
SignUpInvalidNoEmail(body) == Falsy(body.username) \/ Falsy(body.password)

\* !username || !password || !email
SignUpInvalid(body) ==
  Falsy(body.username) \/ Falsy(body.password) \/ Falsy(body.email)

ReturningAll(row) == row

\* returning "userId", "username", "email"
SignUpReturning(row) ==
  [userId |-> row.userId, username |-> row.username, email |-> row.email]

SignUpCatchGeneric(err) == Failure("sign-up")

\* .catch(err => next(err))
SignUpCatch(err) == err

SignUpFrom(r, bodies) ==
  /\ Free(r)
  /\ \E body \in bodies :
       LET req == Request("sign-up", body, NoToken) IN
       reqs' = [reqs EXCEPT ![r] =
         IF SignUpInvalid(body)
         THEN Fail(req, ClientError(400,
                "username password, and email are required fields"))
         ELSE Log([req EXCEPT !.pc = "hash"], <<"hash">>)]
  /\ UNCHANGED <<db, registered>>

SignUpRecv(r) == SignUpFrom(r, SignUpBodies)

SignUpHashedThenAnyway(r) ==
  /\ reqs[r].route = "sign-up" /\ reqs[r].pc = "hash"
  /\ LET req == reqs[r] IN
     \E ok \in BOOLEAN, salt \in Salts :
       reqs' = [reqs EXCEPT ![r] =
         Log([req EXCEPT !.pc = "insert",
                !.tmp = [hashedPassword |->
                           Argon2Hash(salt, req.body.password)]],
             <<IF ok THEN "hash:ok" ELSE "hash:err", "insert">>)]
  /\ UNCHANGED <<db, registered>>

\* argon2.hash settles; on success the first .then issues the insert
SignUpHashed(r) ==
  /\ reqs[r].route = "sign-up" /\ reqs[r].pc = "hash"
  /\ LET req == reqs[r] IN
     \E ok \in BOOLEAN, salt \in Salts :
       reqs' = [reqs EXCEPT ![r] =
         IF ok
         THEN Log([req EXCEPT !.pc = "insert",
                     !.tmp = [hashedPassword |->
                                Argon2Hash(salt, req.body.password)]],
                  <<"hash:ok", "insert">>)
         ELSE Fail(Log(req, <<"hash:err">>), SignUpCatch(Failure("argon2")))]
  /\ UNCHANGED <<db, registered>>

SignUpInsertedAlways201(r) ==
  /\ reqs[r].route = "sign-up" /\ reqs[r].pc = "insert"
  /\ LET req == reqs[r]
         out == InsertUser(req.body.username, req.tmp.hashedPassword,
                           req.body.email)
     IN IF out.ok
        THEN /\ users' = users \cup {out.row}
             /\ registered' = registered \cup
                  {[userId |-> out.row.userId, username |-> req.body.username,
                    password |-> req.body.password]}
             /\ reqs' = [reqs EXCEPT ![r] =
                  Respond(Log(req, <<"insert:ok">>), 201,
                          SignUpReturning(out.row))]
        ELSE /\ reqs' = [reqs EXCEPT ![r] =
                  Respond(Log(req, <<"insert:ok">>), 201, [none |-> TRUE])]
             /\ UNCHANGED <<users, registered>>
  /\ UNCHANGED <<posts, comments, likePosts>>

\* db.query settles: the row is inserted and returned, or the query fails
\* (the username is taken, or the database cannot be reached)
SignUpInserted(r) ==
  /\ reqs[r].route = "sign-up" /\ reqs[r].pc = "insert"
  /\ LET req == reqs[r]
         out == InsertUser(req.body.username, req.tmp.hashedPassword,
                           req.body.email)
     IN \E up \in BOOLEAN :
          IF up /\ out.ok
          THEN /\ users' = users \cup {out.row}
               /\ registered' = registered \cup
                    {[userId |-> out.row.userId, username |-> req.body.username,
                      password |-> req.body.password]}
               /\ reqs' = [reqs EXCEPT ![r] =
                    Respond(Log(req, <<"insert:ok">>), 201,
                            SignUpReturning(out.row))]
          ELSE /\ reqs' = [reqs EXCEPT ![r] =
                    Fail(Log(req, <<"insert:err">>),
                         SignUpCatch(IF up THEN out.err ELSE Failure("pg")))]
               /\ UNCHANGED <<users, registered>>
  /\ UNCHANGED <<posts, comments, likePosts>>

\* ------------------------------------------------ POST /api/auth/sign-in
\* throw new ClientError(401, 'invalid login'), at its three places
MissingFieldError == ClientError(401, "invalid login")

UserNotFoundError == ClientError(404, "user not found")

UnknownUserError == ClientError(401, "invalid login")

WrongPasswordError == ClientError(401, "invalid login")

\* !username || !password
SignInInvalid(body) == Falsy(body.username) \/ Falsy(body.password)

PayloadNoUserId(user, username) == [userId |-> 0, username |-> username]

\* const payload = { userId, username }
SignInPayload(user, username) ==
  [userId |-> user.userId, username |-> username]

SignInRecv(r) ==
  /\ Free(r)
  /\ \E body \in SignInBodies :
       LET req == Request("sign-in", body, NoToken) IN
       reqs' = [reqs EXCEPT ![r] =
         IF SignInInvalid(body)
         THEN Fail(req, MissingFieldError)
         ELSE Log([req EXCEPT !.pc = "lookup",
                     !.existed = UserByName(body.username) # {}],
                  <<"lookup">>)]
  /\ UNCHANGED <<db, registered>>

\* the select settles: no row is an invalid login, a row starts argon2.verify
SignInLookedUp(r) ==
  /\ reqs[r].route = "sign-in" /\ reqs[r].pc = "lookup"
  /\ LET req == reqs[r]
         rows == UserByName(req.body.username)
     IN \E up \in BOOLEAN :
          reqs' = [reqs EXCEPT ![r] =
            IF ~up THEN Fail(Log(req, <<"lookup:err">>), Failure("pg"))
            ELSE IF rows = {}
              THEN Fail(Log(req, <<"lookup:none">>), UnknownUserError)
            ELSE LET user == CHOOSE u \in rows : TRUE IN
                 Log([req EXCEPT !.pc = "verify",
                        !.tmp = [userId |-> user.userId,
                                 hashedPassword |-> user.hashedPassword]],
                     <<"lookup:row", "verify">>)]
  /\ UNCHANGED <<db, registered>>

\* argon2.verify settles: a mismatch is an invalid login, a match signs the
\* payload and answers with the token
SignInVerified(r) ==
  /\ reqs[r].route = "sign-in" /\ reqs[r].pc = "verify"
  /\ LET req == reqs[r]
         isMatching == Argon2Verify(req.tmp.hashedPassword, req.body.password)
         payload == SignInPayload(req.tmp, req.body.username)
     IN \E ok \in BOOLEAN, signed \in BOOLEAN :
          reqs' = [reqs EXCEPT ![r] =
            IF ~ok THEN Fail(Log(req, <<"verify:err">>), Failure("argon2"))
            ELSE IF ~isMatching
              THEN Fail(Log(req, <<"verify:mismatch">>), WrongPasswordError)
            ELSE IF ~signed
              THEN Fail(Log(req, <<"verify:match", "sign", "sign:err">>),
                        Failure("jwt"))
            ELSE Respond(Log(req, <<"verify:match", "sign", "sign:ok">>), 200,
                         [token |-> JwtSign(payload, TOKEN_SECRET),
                          user |-> payload])]
  /\ UNCHANGED <<db, registered>>

NextAuth ==
  \E r \in Reqs :
    \/ SignUpRecv(r)
    \/ SignUpHashed(r)
    \/ SignUpInserted(r)
    \/ SignInRecv(r)
    \/ SignInLookedUp(r)
    \/ SignInVerified(r)

SpecAuth == Init /\ [][NextAuth]_vars

\* ------------------------------------------------------- the tokens presented
\* the payload sign-in signs for an account
PayloadOf(u) == [userId |-> u.userId, username |-> u.username]

\* the tokens sign-in issues for the accounts that exist
IssuedTokens == {JwtSign(PayloadOf(u), TOKEN_SECRET) : u \in users}

\* What else a client can put in the x-access-token header: nothing, a
\* string that is no token, a token signed with a secret of its own, and a
\* token of the server whose payload was replaced by another account's.
BadTokens ==
  {NoToken, Garbage, JwtSign([userId |-> 1, username |-> "alice"], OtherSecret)}
  \cup {[form |-> "jwt", payload |-> PayloadOf(uv[2]),
         sig |-> <<PayloadOf(uv[1]), TOKEN_SECRET>>] :
          uv \in {x \in users \X users : x[1] # x[2]}}

\* The requests of a route behind the gate: an issued token with any of the
\* bodies, and each of the other tokens with one body.
Presented(bodies, body) ==
  (IssuedTokens \X bodies) \cup (BadTokens \X {body})

\* --------------------------------------------------------- POST /api/posts
\* the form sends its own userId with the four fields
NewPost ==
  [userId |-> 2, imageUrl |-> "i", summary |-> "s", title |-> "t",
   body |-> "b"]
PostBodies ==
  {NewPost, [NewPost EXCEPT !.title = Empty],
   [NewPost EXCEPT !.imageUrl = Undefined]}

\* app.post('/api/posts', authorizationMiddleware, ...)
PostsAuth(token) == AuthorizationMiddleware(token)

UserIdFromBody(req) == req.body.userId

\* const { userId } = req.user
PostsUserId(req) == req.user.userId

\* !imageUrl || !summary || !title || !body
PostsInvalid(body) ==
  Falsy(body.imageUrl) \/ Falsy(body.summary) \/ Falsy(body.title)
    \/ Falsy(body.body)

PostsRecv(r) ==
  /\ Free(r)
  /\ \E in \in Presented(PostBodies, NewPost) :
       LET token == in[1]
           body == in[2]
           req == Request("posts", body, token)
           auth == PostsAuth(token)
       IN IF ~auth.ok
          THEN reqs' = [reqs EXCEPT ![r] = Fail(req, auth.err)]
          ELSE IF PostsInvalid(body)
          THEN reqs' = [reqs EXCEPT ![r] =
                 Fail([req EXCEPT !.user = auth.user], ClientError(400,
                   "imageUrl, summary, title and body are required fields"))]
          ELSE /\ Cardinality(posts) + Cardinality(Inserting("posts"))
                    < MaxPosts
               /\ reqs' = [reqs EXCEPT ![r] =
                    Log([req EXCEPT !.pc = "query", !.user = auth.user],
                        <<"insert">>)]
  /\ UNCHANGED <<db, registered>>

\* the insert settles: the new row, with its serial postId, is the answer
PostsSettled(r) ==
  /\ reqs[r].route = "posts" /\ reqs[r].pc = "query"
  /\ LET req == reqs[r]
         newPost == [postId |-> Cardinality(posts) + 1,
                     userId |-> PostsUserId(req),
                     imageUrl |-> req.body.imageUrl,
                     summary |-> req.body.summary,
                     title |-> req.body.title, body |-> req.body.body]
     IN \E up \in BOOLEAN :
          IF up
          THEN /\ posts' = posts \cup {newPost}
               /\ reqs' = [reqs EXCEPT ![r] =
                    Respond(Log(req, <<"insert:ok">>), 201, newPost)]
          ELSE /\ reqs' = [reqs EXCEPT ![r] =
                    Fail(Log(req, <<"insert:err">>), Failure("pg"))]
               /\ UNCHANGED posts
  /\ UNCHANGED <<users, comments, likePosts, registered>>

\* ------------------------------------------------------ POST /api/comments
\* a postId of 0 stands for the field left out
PostIds == 0..MaxPosts
CommentBodies ==
  [postId : PostIds, content : {"hi"}] \cup [postId : {1}, content : {Empty}]

\* app.post('/api/comments', authorizationMiddleware, ...)
CommentsAuth(token) == AuthorizationMiddleware(token)

\* !postId || !userId || !content
CommentsInvalid(postId, userId, content) ==
  postId = 0 \/ userId = 0 \/ Falsy(content)

CommentsRecv(r) ==
  /\ Free(r)
  /\ \E in \in Presented(CommentBodies, [postId |-> 1, content |-> "hi"]) :
       LET token == in[1]
           body == in[2]
           req == Request("comments", body, token)
           auth == CommentsAuth(token)
       IN IF ~auth.ok
          THEN reqs' = [reqs EXCEPT ![r] = Fail(req, auth.err)]
          ELSE IF CommentsInvalid(body.postId, auth.user.userId, body.content)
          THEN reqs' = [reqs EXCEPT ![r] =
                 Fail([req EXCEPT !.user = auth.user], ClientError(400,
                   "postId, userId, and content are required fields"))]
          ELSE /\ Cardinality(comments) + Cardinality(Inserting("comments"))
                    < MaxComments
               /\ reqs' = [reqs EXCEPT ![r] =
                    Log([req EXCEPT !.pc = "query", !.user = auth.user],
                        <<"insert">>)]
  /\ UNCHANGED <<db, registered>>

\* the insert settles, for whatever postId the body names; on success the
\* select of the username is issued
CommentsInserted(r) ==
  /\ reqs[r].route = "comments" /\ reqs[r].pc = "query"
  /\ LET req == reqs[r]
         commentData == [commentId |-> Cardinality(comments) + 1,
                         postId |-> req.body.postId,
                         userId |-> req.user.userId,
                         content |-> req.body.content]
     IN \E up \in BOOLEAN :
          IF up
          THEN /\ comments' = comments \cup {commentData}
               /\ reqs' = [reqs EXCEPT ![r] =
                    Log([req EXCEPT !.pc = "query2", !.tmp = commentData],
                        <<"insert:ok", "select">>)]
          ELSE /\ reqs' = [reqs EXCEPT ![r] =
                    Fail(Log(req, <<"insert:err">>), Failure("pg"))]
               /\ UNCHANGED comments
  /\ UNCHANGED <<users, posts, likePosts, registered>>

\* the select settles: { ...commentData, ...username } is the answer
CommentsSelected(r) ==
  /\ reqs[r].route = "comments" /\ reqs[r].pc = "query2"
  /\ LET req == reqs[r]
         rows == {u \in users : u.userId = req.user.userId}
         name == IF rows = {} THEN Undefined
                 ELSE (CHOOSE u \in rows : TRUE).username
     IN \E up \in BOOLEAN :
          reqs' = [reqs EXCEPT ![r] =
            IF up
            THEN Respond(Log(req, <<"select:ok">>), 201,
                   [commentId |-> req.tmp.commentId, postId |-> req.tmp.postId,
                    userId |-> req.tmp.userId, content |-> req.tmp.content,
                    username |-> name])
            ELSE Fail(Log(req, <<"select:err">>), Failure("pg"))]
  /\ UNCHANGED <<db, registered>>

\* --------------------------------------------------------- POST /api/likes
LikeBodies == [postId : PostIds]
NoBody == [none |-> TRUE]

\* app.post('/api/likes', authorizationMiddleware, ...)
LikesAuth(token) == AuthorizationMiddleware(token)

\* !postId || !userId
LikesInvalid(postId, userId) == postId = 0 \/ userId = 0

\* the rows the table holds
Likes == BagToSet(likePosts)

\* the copies of the rows in a set of rows
RECURSIVE Copies(_)
Copies(rows) ==
  IF rows = {} THEN 0
  ELSE LET l == CHOOSE x \in rows : TRUE
       IN likePosts[l] + Copies(rows \ {l})

LikesRecv(r) ==
  /\ Free(r)
  /\ \E in \in Presented(LikeBodies, [postId |-> 1]) :
       LET token == in[1]
           body == in[2]
           req == Request("likes", body, token)
           auth == LikesAuth(token)
       IN IF ~auth.ok
          THEN reqs' = [reqs EXCEPT ![r] = Fail(req, auth.err)]
          ELSE IF LikesInvalid(body.postId, auth.user.userId)
          THEN reqs' = [reqs EXCEPT ![r] =
                 Fail([req EXCEPT !.user = auth.user], ClientError(400,
                   "postId and userId are required fields"))]
          ELSE /\ Copies(Likes) + Cardinality(Inserting("likes")) < MaxLikes
               /\ reqs' = [reqs EXCEPT ![r] =
                    Log([req EXCEPT !.pc = "query", !.user = auth.user],
                        <<"insert">>)]
  /\ UNCHANGED <<db, registered>>

\* insert into "likePosts" ... on conflict do nothing returning *.  The
\* statement names no conflict target and the schema of the table is not part
\* of the program: for a row that is there already the database either
\* reports a conflict (nothing is inserted, nothing returned) or inserts the
\* row again, whichever its constraints say.  A new row is inserted.
InsertLike(newLike) ==
  {[table |-> likePosts (+) SetToBag({newLike}), rows |-> {newLike}]}
    \cup (IF newLike \in Likes THEN {[table |-> likePosts, rows |-> {}]}
          ELSE {})

\* the insert settles: the first of result.rows is the answer, which is
\* undefined when nothing was inserted
LikesSettled(r) ==
  /\ reqs[r].route = "likes" /\ reqs[r].pc = "query"
  /\ LET req == reqs[r]
         newLike == [postId |-> req.body.postId, userId |-> req.user.userId]
     IN \E up \in BOOLEAN, out \in InsertLike(newLike) :
          IF up
          THEN /\ likePosts' = out.table
               /\ reqs' = [reqs EXCEPT ![r] =
                    Respond(Log(req, <<"insert:ok">>), 201,
                            IF out.rows = {} THEN NoBody ELSE newLike)]
          ELSE /\ reqs' = [reqs EXCEPT ![r] =
                    Fail(Log(req, <<"insert:err">>), Failure("pg"))]
               /\ UNCHANGED likePosts
  /\ UNCHANGED <<users, posts, comments, registered>>

\* ------------------------------------------------ DELETE /api/likes/:postId
DecodeOnly(token) ==
  IF token.form = "jwt" THEN [ok |-> TRUE, user |-> token.payload]
  ELSE AuthorizationMiddleware(token)

\* app.delete('/api/likes/:postId', authorizationMiddleware, ...)
UnlikeAuth(token) == AuthorizationMiddleware(token)

UnlikeRecv(r) ==
  /\ Free(r)
  /\ \E in \in Presented([postId : 1..MaxPosts], [postId |-> 1]) :
       LET token == in[1]
           req == Request("unlike", in[2], token)
           auth == UnlikeAuth(token)
       IN reqs' = [reqs EXCEPT ![r] =
            IF ~auth.ok THEN Fail(req, auth.err)
            ELSE Log([req EXCEPT !.pc = "query", !.user = auth.user],
                     <<"delete">>)]
  /\ UNCHANGED <<db, registered>>

\* delete ... where "postId" = $1 and "userId" = $2 returning *
UnlikeSettled(r) ==
  /\ reqs[r].route = "unlike" /\ reqs[r].pc = "query"
  /\ LET req == reqs[r]
         rows == {l \in Likes : /\ l.postId = req.body.postId
                                    /\ l.userId = req.user.userId}
     IN \E up \in BOOLEAN :
          IF up
          THEN /\ likePosts' = [l \in Likes \ rows |-> likePosts[l]]
               /\ reqs' = [reqs EXCEPT ![r] =
                    Respond(Log(req, <<"delete:ok">>), 204, [rows |-> rows])]
          ELSE /\ reqs' = [reqs EXCEPT ![r] =
                    Fail(Log(req, <<"delete:err">>), Failure("pg"))]
               /\ UNCHANGED likePosts
  /\ UNCHANGED <<users, posts, comments, registered>>

\* The write routes, with the sign-ups that create the accounts whose tokens
\* are presented; a request arrives or settles while others are pending.
NextWrite ==
  \E r \in Reqs :
    \/ SignUpFrom(r, SignUpComplete)
    \/ SignUpHashed(r)
    \/ SignUpInserted(r)
    \/ PostsRecv(r)
    \/ PostsSettled(r)
    \/ CommentsRecv(r)
    \/ CommentsInserted(r)
    \/ CommentsSelected(r)
    \/ LikesRecv(r)
    \/ LikesSettled(r)
    \/ UnlikeRecv(r)
    \/ UnlikeSettled(r)

SpecWrite == Init /\ [][NextWrite]_vars

\* ------------------------------------------------- GET /api/posts/:postId
UsernameOf(userId) == (CHOOSE u \in users : u.userId = userId).username
EmailOf(userId) == (CHOOSE u \in users : u.userId = userId).email

\* the post joined with its author and the count of its comments
PostView(p) ==
  [postId |-> p.postId, userId |-> p.userId, imageUrl |-> p.imageUrl,
   summary |-> p.summary, title |-> p.title,
   username |-> UsernameOf(p.userId), email |-> EmailOf(p.userId),
   body |-> p.body,
   totalComments |->
     Int8Text(Cardinality({c \in comments : c.postId = p.postId}))]

\* Number(req.params.postId) is 0 (or NaN) for a parameter that is no
\* positive number
GetPostRecv(r) ==
  /\ Free(r)
  /\ \E postId \in PostIds :
       LET req == Request("get-post", [postId |-> postId], NoToken) IN
       reqs' = [reqs EXCEPT ![r] =
         IF postId = 0
         THEN Fail(req, ClientError(400, "postId must be a positive integer"))
         ELSE Log([req EXCEPT !.pc = "query"], <<"select">>)]
  /\ UNCHANGED <<db, registered>>

\* result.rows is an array, so !result.rows never holds: the answer is
\* rows[0], which is undefined when no post has the id
GetPostSettled(r) ==
  /\ reqs[r].route = "get-post" /\ reqs[r].pc = "query"
  /\ LET req == reqs[r]
         rows == {PostView(p) : p \in {q \in posts : q.postId = req.body.postId}}
     IN \E up \in BOOLEAN :
          reqs' = [reqs EXCEPT ![r] =
            IF up
            THEN Respond(Log(req, <<"select:ok">>), 200,
                   IF rows = {} THEN NoBody ELSE CHOOSE v \in rows : TRUE)
            ELSE Fail(Log(req, <<"select:err">>), Failure("pg"))]
  /\ UNCHANGED <<db, registered>>

\* ---------------------------------------------------------- GET /api/posts
GetPostsRecv(r) ==
  /\ Free(r)
  /\ reqs' = [reqs EXCEPT ![r] =
       Log([Request("get-posts", NoBody, NoToken) EXCEPT !.pc = "query"],
           <<"select">>)]
  /\ UNCHANGED <<db, registered>>

GetPostsSettled(r) ==
  /\ reqs[r].route = "get-posts" /\ reqs[r].pc = "query"
  /\ LET req == reqs[r]
         rows == {[postId |-> p.postId, imageUrl |-> p.imageUrl,
                   summary |-> p.summary, title |-> p.title,
                   username |-> UsernameOf(p.userId), body |-> p.body] :
                  p \in posts}
     IN \E up \in BOOLEAN :
          reqs' = [reqs EXCEPT ![r] =
            IF up
            THEN Respond(Log(req, <<"select:ok">>), 200, [rows |-> rows])
            ELSE Fail(Log(req, <<"select:err">>), Failure("pg"))]
  /\ UNCHANGED <<db, registered>>

\* ----------------------------------------------- GET /api/comments/:postId
GetCommentsRecv(r) ==
  /\ Free(r)
  /\ \E postId \in PostIds :
       reqs' = [reqs EXCEPT ![r] =
         Log([Request("get-comments", [postId |-> postId], NoToken)
                EXCEPT !.pc = "query"], <<"select">>)]
  /\ UNCHANGED <<db, registered>>

GetCommentsSettled(r) ==
  /\ reqs[r].route = "get-comments" /\ reqs[r].pc = "query"
  /\ LET req == reqs[r]
         rows == {[userId |-> c.userId, username |-> UsernameOf(c.userId),
                   content |-> c.content] :
                  c \in {d \in comments : d.postId = req.body.postId}}
     IN \E up \in BOOLEAN :
          reqs' = [reqs EXCEPT ![r] =
            IF up
            THEN Respond(Log(req, <<"select:ok">>), 200, [rows |-> rows])
            ELSE Fail(Log(req, <<"select:err">>), Failure("pg"))]
  /\ UNCHANGED <<db, registered>>

\* -------------------------------------------------- GET /api/likes/:postId
GetLikesRecv(r) ==
  /\ Free(r)
  /\ \E postId \in PostIds :
       reqs' = [reqs EXCEPT ![r] =
         Log([Request("get-likes", [postId |-> postId], NoToken)
                EXCEPT !.pc = "query"], <<"select">>)]
  /\ UNCHANGED <<db, registered>>

\* select count("l".*) ... from "likePosts" as "l" where "postId" = $1
CountLikes(postId) == Copies({l \in Likes : l.postId = postId})

\* select count("l".*) as "totalLikes" ... where "postId" = $1
GetLikesSettled(r) ==
  /\ reqs[r].route = "get-likes" /\ reqs[r].pc = "query"
  /\ LET req == reqs[r]
         totalLikes == Int8Text(CountLikes(req.body.postId))
     IN \E up \in BOOLEAN :
          reqs' = [reqs EXCEPT ![r] =
            IF up
            THEN Respond(Log(req, <<"select:ok">>), 200,
                         [totalLikes |-> totalLikes])
            ELSE Fail(Log(req, <<"select:err">>), Failure("pg"))]
  /\ UNCHANGED <<db, registered>>

\* -------------------------------------------------- GET /api/liked/:postId
\* app.get('/api/liked/:postId', authorizationMiddleware, ...)
GetLikedAuth(token) == AuthorizationMiddleware(token)

GetLikedRecv(r) ==
  /\ Free(r)
  /\ \E in \in Presented([postId : PostIds], [postId |-> 1]) :
       LET token == in[1]
           req == Request("get-liked", in[2], token)
           auth == GetLikedAuth(token)
       IN reqs' = [reqs EXCEPT ![r] =
            IF ~auth.ok THEN Fail(req, auth.err)
            ELSE Log([req EXCEPT !.pc = "query", !.user = auth.user],
                     <<"select">>)]
  /\ UNCHANGED <<db, registered>>

\* select count("l".*) > 0 as "userLiked" ...
GetLikedSettled(r) ==
  /\ reqs[r].route = "get-liked" /\ reqs[r].pc = "query"
  /\ LET req == reqs[r]
         userLiked == \E l \in Likes : /\ l.postId = req.body.postId
                                           /\ l.userId = req.user.userId
     IN \E up \in BOOLEAN :
          reqs' = [reqs EXCEPT ![r] =
            IF up
            THEN Respond(Log(req, <<"select:ok">>), 200,
                         [userLiked |-> userLiked])
            ELSE Fail(Log(req, <<"select:err">>), Failure("pg"))]
  /\ UNCHANGED <<db, registered>>

\* --------------------------------------------------- POST /api/email-share
EmailBodies ==
  {[title |-> "t", summary |-> "s", body |-> "b", email |-> "a@x.com"]}

\* the response object of express, by its methods
ExpressRes == {"status", "json"}
\* what sgMail.send resolves to: the pair of the HTTP response of the mail
\* service and its body, an array with no json method
SendResult == {"0", "1", "length"}

\* a call of x.json(...) on a value without that method throws a TypeError
TypeError == [type |-> "TypeError", code |-> "res.json is not a function"]

EmailShareRecv(r) ==
  /\ Free(r)
  /\ \E body \in EmailBodies :
       reqs' = [reqs EXCEPT ![r] =
         Log([Request("email-share", body, NoToken) EXCEPT !.pc = "send"],
             <<"send">>)]
  /\ UNCHANGED <<db, registered>>

\* sgMail.send settles.  In .then(res => res.json({ success: true })) the
\* parameter res hides the response object of the handler: json is called on
\* what send resolved to, and the throw goes to .catch(err => next(err)).
EmailShareSent(r) ==
  /\ reqs[r].route = "email-share" /\ reqs[r].pc = "send"
  /\ LET req == reqs[r]
         outer == ExpressRes  \* res of the handler, hidden in the callback
         res == SendResult    \* res of the callback
     IN \E ok \in BOOLEAN :
          reqs' = [reqs EXCEPT ![r] =
            IF ~ok THEN Fail(Log(req, <<"send:err">>), Failure("sendgrid"))
            ELSE IF "json" \in res
              THEN Respond(Log(req, <<"send:ok">>), 200, [success |-> TRUE])
            ELSE Fail(Log(req, <<"send:ok">>), TypeError)]
  /\ UNCHANGED <<db, registered>>

\* Every route of the server; a request arrives or settles while others are
\* pending.
Next ==
  \E r \in Reqs :
    \/ SignUpRecv(r)
    \/ SignUpHashed(r)
    \/ SignUpInserted(r)
    \/ SignInRecv(r)
    \/ SignInLookedUp(r)
    \/ SignInVerified(r)
    \/ PostsRecv(r)
    \/ PostsSettled(r)
    \/ CommentsRecv(r)
    \/ CommentsInserted(r)
    \/ CommentsSelected(r)
    \/ LikesRecv(r)
    \/ LikesSettled(r)
    \/ UnlikeRecv(r)
    \/ UnlikeSettled(r)
    \/ GetPostRecv(r)
    \/ GetPostSettled(r)
    \/ GetPostsRecv(r)
    \/ GetPostsSettled(r)
    \/ GetCommentsRecv(r)
    \/ GetCommentsSettled(r)
    \/ GetLikesRecv(r)
    \/ GetLikesSettled(r)
    \/ GetLikedRecv(r)
    \/ GetLikedSettled(r)
    \/ EmailShareRecv(r)
    \/ EmailShareSent(r)

Spec == Init /\ [][Next]_vars

\* The likes of the posts: the accounts and posts they need, the likes and
\* unlikes, and the two reads of them, the requests interleaving.
NextLikes ==
  \E r \in Reqs :
    \/ SignUpFrom(r, SignUpComplete)
    \/ SignUpHashed(r)
    \/ SignUpInserted(r)
    \/ PostsRecv(r)
    \/ PostsSettled(r)
    \/ LikesRecv(r)
    \/ LikesSettled(r)
    \/ UnlikeRecv(r)
    \/ UnlikeSettled(r)
    \/ GetLikesRecv(r)
    \/ GetLikesSettled(r)
    \/ GetLikedRecv(r)
    \/ GetLikedSettled(r)

SpecLikes == Init /\ [][NextLikes]_vars

\* The posts and comments with the routes that read them, and the sharing of
\* a post by mail, the requests interleaving.
NextShare ==
  \E r \in Reqs :
    \/ SignUpFrom(r, SignUpComplete)
    \/ SignUpHashed(r)
    \/ SignUpInserted(r)
    \/ PostsRecv(r)
    \/ PostsSettled(r)
    \/ CommentsRecv(r)
    \/ CommentsInserted(r)
    \/ CommentsSelected(r)
    \/ GetPostRecv(r)
    \/ GetPostSettled(r)
    \/ GetPostsRecv(r)
    \/ GetPostsSettled(r)
    \/ GetCommentsRecv(r)
    \/ GetCommentsSettled(r)
    \/ EmailShareRecv(r)
    \/ EmailShareSent(r)

SpecShare == Init /\ [][NextShare]_vars

\* ================================================================ properties
Done(r) == reqs[r].pc = "done"
Occurs(req, event) == \E i \in 1..Len(req.steps) : req.steps[i] = event
\* event a occurs, and event b occurs earlier
After(req, a, b) ==
  \A i \in 1..Len(req.steps) :
    req.steps[i] = a => \E j \in 1..(i - 1) : req.steps[j] = b
ErrEvents ==
  {"hash:err", "insert:err", "lookup:err", "verify:err", "sign:err",
   "select:err", "delete:err", "send:err"}
\* some collaborator call of the request failed
CollabFailed(req) == \E i \in 1..Len(req.steps) : req.steps[i] \in ErrEvents
\* a field of a request body that is empty or absent
Missing(x) == x \in {Undefined, Empty}

SignInDone(r) ==
  /\ Done(r) /\ reqs[r].route = "sign-in"
  /\ ~Missing(reqs[r].body.username) /\ ~Missing(reqs[r].body.password)
  /\ ~CollabFailed(reqs[r])
\* the account of the login name existed when the request arrived, and the
\* password is not the one it was registered with
WrongPassword(r) ==
  /\ SignInDone(r) /\ reqs[r].existed
  /\ \E a \in registered : /\ a.username = reqs[r].body.username
                           /\ a.password # reqs[r].body.password
\* no account has the login name
UnknownLogin(r) ==
  /\ SignInDone(r)
  /\ \A a \in registered : a.username # reqs[r].body.username

\* C2: a sign-in with a wrong password for an existing account and a sign-in
\* with a login name that has no account fail alike: the same error (401,
\* 'invalid login') and the same response, whichever of the two it was.
C2_EnumerationResistance ==
  \A r1 \in Reqs, r2 \in Reqs :
    (WrongPassword(r1) /\ UnknownLogin(r2)) =>
      /\ reqs[r1].err = ClientError(401, "invalid login")
      /\ reqs[r2].err = reqs[r1].err
      /\ reqs[r1].res = Json(401, [error |-> "invalid login"])
      /\ reqs[r2].res = reqs[r1].res

C2_Witness ==
  \E r1 \in Reqs, r2 \in Reqs :
    /\ WrongPassword(r1) /\ UnknownLogin(r2)
    /\ Occurs(reqs[r1], "verify:mismatch")
    /\ Occurs(reqs[r2], "lookup:none")

\* the account existed when the sign-in arrived and the password is the one
\* it was registered with
CorrectPassword(r, a) ==
  /\ SignInDone(r) /\ reqs[r].existed
  /\ a.username = reqs[r].body.username
  /\ a.password = reqs[r].body.password

\* C3: a sign-in with the login name and the password of a registered
\* account succeeds with a token that the authorization gate accepts under
\* the same secret, and the identity the gate recovers is that account's id.
C3_TokenRoundTrip ==
  \A r \in Reqs : \A a \in registered :
    CorrectPassword(r, a) =>
      /\ reqs[r].res.status = 200
      /\ AuthorizationMiddleware(reqs[r].res.body.token).ok
      /\ AuthorizationMiddleware(reqs[r].res.body.token).user.userId = a.userId
      /\ \E u \in users : u.userId = a.userId /\ u.username = a.username

\* two accounts exist, and a sign-in for the second one, registered after
\* other requests, has been answered
C3_Witness ==
  \E r \in Reqs : \E a \in registered :
    /\ CorrectPassword(r, a)
    /\ a.userId = 2
    /\ reqs[r].res.status = 200

SignUpMissingField(req) ==
  /\ req.route = "sign-up"
  /\ \/ Missing(req.body.username)
     \/ Missing(req.body.password)
     \/ Missing(req.body.email)

\* C4: a sign-up with a field empty or absent is answered 400 (validation
\* error) without the hash or the insert ever being started, and the step
\* that answers it leaves the users table as it was.
C4_InvalidSignUpWritesNothing ==
  /\ [](\A r \in Reqs :
          (reqs[r].pc # "idle" /\ SignUpMissingField(reqs[r])) =>
            /\ Done(r)
            /\ reqs[r].res.status = 400
            /\ ErrorKind(reqs[r].res) = "ValidationError"
            /\ reqs[r].steps = <<>>)
  /\ [][\A r \in Reqs :
          (reqs'[r] # reqs[r] /\ SignUpMissingField(reqs'[r])) =>
            users' = users]_vars

C4_Witness ==
  \E r \in Reqs :
    /\ Done(r) /\ SignUpMissingField(reqs[r])
    /\ Missing(reqs[r].body.email) /\ ~Missing(reqs[r].body.username)
    /\ users # {}

\* the insert of request r settles in this step
InsertSettles(r) ==
  /\ reqs[r].route = "sign-up" /\ reqs[r].pc = "insert"
  /\ reqs'[r].pc = "done"

\* C5: when the insert of a sign-up whose username is already taken settles,
\* no account is added and, unless the database itself failed, the request
\* ends in a ConflictError; the database's own failure ends it in a
\* DependencyError, which is another kind.
C5_DuplicateIsConflict ==
  [][\A r \in Reqs :
       (InsertSettles(r) /\ UserByName(reqs[r].body.username) # {}) =>
         /\ users' = users
         /\ reqs'[r].res.status # 201
         /\ IF reqs'[r].err = Failure("pg")
            THEN ErrorKind(reqs'[r].res) = "DependencyError"
            ELSE ErrorKind(reqs'[r].res) = "ConflictError"]_vars

C5_Witness ==
  \E r \in Reqs :
    /\ Done(r) /\ reqs[r].route = "sign-up"
    /\ Occurs(reqs[r], "insert:err")
    /\ ErrorKind(reqs[r].res) = "ConflictError"
    /\ UserByName(reqs[r].body.username) # {}

Created(r) ==
  Done(r) /\ reqs[r].route = "sign-up" /\ reqs[r].res.status = 201
\* the database answered the insert of the request
InsertAnswered(r) ==
  /\ Done(r) /\ reqs[r].route = "sign-up"
  /\ Occurs(reqs[r], "insert")
  /\ reqs[r].err # Failure("pg")

\* C6: a username identifies at most one account, whatever the interleaving
\* of the registrations; of two registrations with the same username at most
\* one is answered 201, a 201 answer names the one account of that username,
\* and a registration the database answered leaves the username registered.
C6_UniqueLoginName ==
  /\ \A u1 \in users, u2 \in users :
       (u1.username = u2.username \/ u1.userId = u2.userId) => u1 = u2
  /\ \A r1 \in Reqs, r2 \in Reqs :
       (Created(r1) /\ Created(r2)
        /\ reqs[r1].body.username = reqs[r2].body.username) => r1 = r2
  /\ \A r \in Reqs :
       Created(r) =>
         /\ DOMAIN reqs[r].res.body = {"userId", "username", "email"}
         /\ \E u \in users : /\ u.userId = reqs[r].res.body.userId
                             /\ u.username = reqs[r].body.username
  /\ \A r \in Reqs :
       InsertAnswered(r) =>
         Cardinality(UserByName(reqs[r].body.username)) = 1

\* two registrations with the same username, both answered by the database:
\* one created the account, the other got the conflict
C6_Witness ==
  \E r1 \in Reqs, r2 \in Reqs :
    /\ r1 # r2
    /\ InsertAnswered(r1) /\ InsertAnswered(r2)
    /\ reqs[r1].body.username = reqs[r2].body.username
    /\ Created(r1) /\ ~Created(r2)

HashFree(rec) == "hashedPassword" \notin DOMAIN rec
ErrorMessages ==
  {"username password, and email are required fields", "invalid login",
   "conflict", "an unexpected error occurred"}

\* C7: no response of sign-up or sign-in carries the hashed password: a 201
\* of sign-up has userId, username and email only, a 200 of sign-in the
\* token and {userId, username} only (the token's payload being the same
\* two fields), every other response one of the fixed error messages.
C7_HashNeverReturned ==
  \A r \in Reqs :
    (Done(r) /\ reqs[r].route \in {"sign-up", "sign-in"}) =>
      LET res == reqs[r].res IN
      CASE res.status = 201 ->
             DOMAIN res.body = {"userId", "username", "email"}
        [] res.status = 200 ->
             /\ DOMAIN res.body = {"token", "user"}
             /\ DOMAIN res.body.user = {"userId", "username"}
             /\ DOMAIN res.body.token.payload = {"userId", "username"}
        [] OTHER ->
             /\ DOMAIN res.body = {"error"}
             /\ res.body.error \in ErrorMessages

C7_Witness ==
  \E r1 \in Reqs, r2 \in Reqs :
    /\ Done(r1) /\ reqs[r1].route = "sign-up" /\ reqs[r1].res.status = 201
    /\ Done(r2) /\ reqs[r2].route = "sign-in" /\ reqs[r2].res.status = 200
    /\ \E u \in users : u.username = reqs[r2].body.username
                        /\ ~HashFree(u)

\* C9: in every request the steps follow their dependencies: the insert is
\* issued after the hash of the same request succeeded, the verification
\* after the lookup returned a row, the signing after the verification
\* reported a match; a failed step is the last step of its request, and no
\* step is started twice.
C9_DependencyOrder ==
  \A r \in Reqs :
    LET req == reqs[r] IN
    /\ After(req, "insert", "hash:ok")
    /\ After(req, "hash:ok", "hash")
    /\ After(req, "verify", "lookup:row")
    /\ After(req, "lookup:row", "lookup")
    /\ After(req, "sign", "verify:match")
    /\ After(req, "verify:match", "verify")
    /\ \A i \in 1..Len(req.steps) :
         req.steps[i] \in ErrEvents \cup {"lookup:none", "verify:mismatch"} =>
           i = Len(req.steps) /\ req.pc = "done"
    /\ \A i \in 1..Len(req.steps), j \in 1..Len(req.steps) :
         req.steps[i] = req.steps[j] => i = j
    /\ (req.route = "sign-up" /\ req.res.status = 201) =>
         Occurs(req, "insert:ok")
    /\ (req.route = "sign-in" /\ req.res.status = 200) =>
         Occurs(req, "sign:ok")

\* two requests interleave: a sign-in has been answered with a token while a
\* sign-up, whose hash failed, has ended without an insert
C9_Witness ==
  \E r1 \in Reqs, r2 \in Reqs :
    /\ Done(r1) /\ reqs[r1].route = "sign-in" /\ Occurs(reqs[r1], "sign:ok")
    /\ Done(r2) /\ reqs[r2].route = "sign-up" /\ Occurs(reqs[r2], "hash:err")
    /\ ~Occurs(reqs[r2], "insert")

WriteRoutes == {"posts", "comments", "likes", "unlike"}
\* the token is missing, is no token at all, or carries a signature that is
\* not the server's signature of its payload
Unsigned(token) ==
  \/ token = NoToken
  \/ token.form = "garbage"
  \/ token.form = "jwt" /\ token.sig # <<token.payload, TOKEN_SECRET>>

\* C1: a request to create a post, create a comment, like or unlike whose
\* token is missing, malformed or not signed with the server's secret ends in
\* an AuthenticationError (401) without any insert or delete being issued,
\* and the step that answers it leaves posts, comments and likes as they were.
C1_GateBeforeWrites ==
  /\ [](\A r \in Reqs :
          (reqs[r].route \in WriteRoutes /\ Unsigned(reqs[r].token)) =>
            /\ Done(r)
            /\ reqs[r].err.type = "ClientError"
            /\ reqs[r].res.status = 401
            /\ ErrorKind(reqs[r].res) = "AuthenticationError"
            /\ reqs[r].steps = <<>>)
  /\ [][\A r \in Reqs :
          (reqs'[r] # reqs[r] /\ reqs'[r].route \in WriteRoutes
           /\ Unsigned(reqs'[r].token)) =>
            UNCHANGED <<posts, comments, likePosts>>]_vars

\* an unlike with a server token whose payload was replaced by the account of
\* another user has been rejected, while that user's like is in the table
C1_Witness ==
  \E r \in Reqs :
    /\ Done(r) /\ reqs[r].route = "unlike"
    /\ reqs[r].token.form = "jwt" /\ Unsigned(reqs[r].token)
    /\ reqs[r].token.sig[2] = TOKEN_SECRET
    /\ [postId |-> reqs[r].body.postId,
        userId |-> reqs[r].token.payload.userId] \in Likes

\* the query of a write request settles in this step
WriteSettles(r) ==
  /\ reqs[r].route \in WriteRoutes
  /\ reqs[r].pc \in {"query", "query2"}
  /\ reqs'[r] # reqs[r]

\* C8: a write that passed the gate carries a token the server issued, and
\* every row it adds or removes has the userId of the token's payload,
\* whatever userId the request body carries; the post it answers with has
\* that userId too.
C8_WriteAttributedToToken ==
  /\ [](\A r \in Reqs :
          (reqs[r].route \in WriteRoutes /\ Occurs(reqs[r], "insert")) =>
            /\ reqs[r].token \in IssuedTokens
            /\ reqs[r].user.userId = reqs[r].token.payload.userId
            /\ (reqs[r].route = "posts" /\ reqs[r].res.status = 201) =>
                 reqs[r].res.body.userId = reqs[r].token.payload.userId)
  /\ [][\A r \in Reqs :
          WriteSettles(r) =>
            LET userId == reqs[r].token.payload.userId IN
            /\ \A p \in posts' \ posts : p.userId = userId
            /\ \A c \in comments' \ comments : c.userId = userId
            /\ \A l \in Likes' \cup Likes :
                 CopiesIn(l, likePosts') # CopiesIn(l, likePosts) =>
                   l.userId = userId]_vars

\* a post was created with a token of one account and a body naming another
C8_Witness ==
  \E r \in Reqs :
    /\ Done(r) /\ reqs[r].route = "posts" /\ reqs[r].res.status = 201
    /\ reqs[r].body.userId # reqs[r].token.payload.userId
    /\ \E p \in posts : /\ p.postId = reqs[r].res.body.postId
                        /\ p.userId = reqs[r].token.payload.userId
    /\ \E u \in users : u.userId = reqs[r].body.userId

\* the request passed the gate and the validation of its handler, and every
\* collaborator call it made succeeded
AllSucceeded(r) ==
  /\ Done(r)
  /\ reqs[r].err.type # "ClientError"
  /\ ~CollabFailed(reqs[r])

\* C10: a request whose validation passes and whose collaborator calls all
\* succeed ends with a success response and no error forwarded to the error
\* middleware; an email-share whose mail was sent answers {success: true}.
C10_SuccessWhenAllSucceed ==
  \A r \in Reqs :
    AllSucceeded(r) =>
      /\ reqs[r].err = NoErr
      /\ reqs[r].res.status \in {200, 201, 204}
      /\ reqs[r].route = "email-share" =>
           reqs[r].res.body = [success |-> TRUE]

\* what holds of the code: the same, of every route but email-share
C10_AllButEmailShare ==
  \A r \in Reqs :
    (AllSucceeded(r) /\ reqs[r].route # "email-share") =>
      /\ reqs[r].err = NoErr
      /\ reqs[r].res.status \in {200, 201, 204}

====
